---- MODULE Spec2Model ----
(***************************************************************************)
(* Model of the GitHub MCP server's account registry (GitHubServiceImpl)   *)
(* and of its tree-based commit construction (handleCreateCommit).         *)
(*                                                                         *)
(* Strings are modelled by a small alphabet of owner names in several      *)
(* letter cases; JavaScript's undefined is the value Undefined.  The       *)
(* remote service and the local filesystem are collaborators: every call   *)
(* to them either answers or throws, chosen nondeterministically.          *)
(***************************************************************************)
EXTENDS Integers, Sequences, FiniteSets, TLC

\* ------------------------------------------------------------------ bounds
MaxAccounts == 2    \* configured accounts per registry (SpecRegistry)
MaxChanges == 2     \* length of a create_commit changes list
MaxExternal == 1    \* commits pushed to the branch by writers outside the server

\* ------------------------------------------------------------------ strings
Undefined == "<undefined>"

\* Owner names an account can be configured under (parseGitHubAccounts keeps
\* only pairs whose owner is a non-empty string).
ConfigOwners == {"alice", "Alice", "bob"}

\* Owner strings a caller or the DEFAULT_OWNER setting can supply.
OwnerArgs == {"alice", "Alice", "ALICE", "bob", "carol", ""}

\* String.prototype.toLowerCase on the alphabet above.
toLowerCase(s) ==
  CASE s \in {"alice", "Alice", "ALICE"} -> "alice"
    [] s \in {"bob", "Bob", "BOB"} -> "bob"
    [] s \in {"github-mcp-server", "GitHub-MCP-Server"} -> "github-mcp-server"
    [] OTHER -> s

Min(S) == CHOOSE x \in S : \A y \in S : x <= y

\* JavaScript truthiness of a string | undefined value.
Truthy(s) == s # Undefined /\ s # ""

\* ------------------------------------------------------------------ state
VARIABLES
  status,            \* "none" before construction, then "ready" or "failed"
  octokitInstances,  \* Map<string, Octokit> in insertion order: <<[key, token], ...>>
  selectedOwner,     \* string | undefined
  last,              \* outcome of the last registry operation
  config,            \* the configuration the process started with
  lastSelected,      \* history: argument of the last selectAccount that returned
  commits,           \* remote commit objects; a commit's hash is its index
  head,              \* remote branch reference: hash of the head commit
  refWriter,         \* history: who wrote the branch reference last
  extPushes,         \* history: number of commits pushed by outside writers
  call,              \* the create_commit invocations, one record per caller
  tool,              \* the file or repository tool invocation in progress
  store              \* the tracked projects: the Map in memory and the file

registryVars == <<status, octokitInstances, selectedOwner, last, config, lastSelected>>
remoteVars == <<commits, head, refWriter, extPushes>>
vars == <<status, octokitInstances, selectedOwner, last, config, lastSelected,
          commits, head, refWriter, extPushes, call, tool, store>>

\* ------------------------------------------------------------------ Map
MapHas(m, k) == \E i \in 1..Len(m) : m[i].key = k

MapGet_First(m, k) == IF m # <<>> THEN m[1].token ELSE Undefined
MapGet(m, k) ==
  IF MapHas(m, k) THEN (CHOOSE e \in {m[i] : i \in 1..Len(m)} : e.key = k).token
  ELSE Undefined

\* Map.prototype.set: an existing key keeps its position and takes the new value.
MapSet_Appends(m, k, v) == Append(m, [key |-> k, token |-> v])
MapSet(m, k, v) ==
  IF MapHas(m, k)
  THEN [i \in 1..Len(m) |-> IF m[i].key = k THEN [key |-> k, token |-> v] ELSE m[i]]
  ELSE Append(m, [key |-> k, token |-> v])

MapKeys(m) == [i \in 1..Len(m) |-> m[i].key]

\* ------------------------------------------------------------------ registry
\* The constructor's loop over the accounts.
RECURSIVE BuildInstances(_, _)
BuildInstances(accounts, m) ==
  IF accounts = <<>> THEN m
  ELSE BuildInstances(Tail(accounts),
                      MapSet(m, toLowerCase(Head(accounts).owner), Head(accounts).token))

\* The constructor's test of the configured default owner.
DefaultOwnerAccepted_CaseSensitive(m, defaultOwner) ==
  Truthy(defaultOwner) /\ MapHas(m, defaultOwner)
DefaultOwnerAccepted(m, defaultOwner) ==
  Truthy(defaultOwner) /\ MapHas(m, toLowerCase(defaultOwner))

\* new GitHubServiceImpl(accounts, defaultOwner)
Constructor(accounts, defaultOwner) ==
  IF Len(accounts) = 0
  THEN [ok |-> FALSE, instances |-> <<>>, selected |-> Undefined]
  ELSE LET m == BuildInstances(accounts, <<>>)
       IN [ok |-> TRUE,
           instances |-> m,
           selected |-> IF DefaultOwnerAccepted(m, defaultOwner)
                        THEN defaultOwner ELSE Undefined]

listAccounts == MapKeys(octokitInstances)

\* getEffectiveOwner(owner): [ok, value] or the McpError it throws.
EffectiveOwnerOf_IgnoresSelection(owner, selected) == owner
EffectiveOwnerOf(owner, selected) == IF Truthy(owner) THEN owner ELSE selected

getEffectiveOwner(owner) ==
  LET effectiveOwner == EffectiveOwnerOf(owner, selectedOwner) IN
  IF ~Truthy(effectiveOwner)
  THEN [ok |-> FALSE, code |-> "InvalidParams", msg |-> "No owner selected",
        owners |-> listAccounts, value |-> Undefined]
  ELSE [ok |-> TRUE, code |-> "", msg |-> "", owners |-> <<>>, value |-> effectiveOwner]

\* getOctokitForOwner(owner): the client handle (its token) or the McpError.
getOctokitForOwner(owner) ==
  LET eff == getEffectiveOwner(owner) IN
  IF ~eff.ok THEN eff
  ELSE LET octokit == MapGet(octokitInstances, toLowerCase(eff.value)) IN
       IF octokit = Undefined
       THEN [ok |-> FALSE, code |-> "InvalidParams", msg |-> "No GitHub token configured",
             owners |-> listAccounts, value |-> Undefined]
       ELSE [ok |-> TRUE, code |-> "", msg |-> "", owners |-> <<>>, value |-> octokit]

\* selectAccount's membership test.
SelectAccountAccepts_Any(owner) == TRUE
SelectAccountAccepts(owner) == MapHas(octokitInstances, toLowerCase(owner))

\* The slot after a selectAccount that threw.
SlotAfterRejected_Cleared(owner) == Undefined
SlotAfterRejected(owner) == selectedOwner

NoResult == [op |-> "none", arg |-> Undefined, ok |-> TRUE, code |-> "", msg |-> "",
             owners |-> <<>>, value |-> Undefined, again |-> FALSE]

Outcome(op, arg, r) ==
  [op |-> op, arg |-> arg, ok |-> r.ok, code |-> r.code, msg |-> r.msg,
   owners |-> r.owners, value |-> r.value, again |-> FALSE]

\* Account configurations: 0..MaxAccounts accounts, the i-th with the i-th token.
RECURSIVE OwnerSeqs(_)
OwnerSeqs(n) ==
  IF n = 0 THEN {<<>>}
  ELSE OwnerSeqs(n - 1) \cup
       {Append(s, o) : s \in {t \in OwnerSeqs(n - 1) : Len(t) = n - 1}, o \in ConfigOwners}

\* The credential configured with the i-th account (GITHUB_TOKEN_<i>).
TokenOf(i) == <<"tok1", "tok2", "tok3", "tok4">>[i]

AccountsOf(owners) == [i \in 1..Len(owners) |-> [owner |-> owners[i], token |-> TokenOf(i)]]

\* Process start: the registry is constructed from the configuration.
Construct ==
  /\ status = "none"
  /\ \E owners \in OwnerSeqs(MaxAccounts), defaultOwner \in OwnerArgs \cup {Undefined} :
       LET c == Constructor(AccountsOf(owners), defaultOwner) IN
       /\ status' = IF c.ok THEN "ready" ELSE "failed"
       /\ octokitInstances' = c.instances
       /\ selectedOwner' = c.selected
       /\ config' = [accounts |-> AccountsOf(owners), defaultOwner |-> defaultOwner]
  /\ last' = NoResult
  /\ UNCHANGED <<lastSelected, remoteVars, call, tool, store>>

\* Line 70: this.selectedOwner = owner
SlotAfterAccepted_Toggled(owner) == IF selectedOwner = owner THEN Undefined ELSE owner
SlotAfterAccepted(owner) == owner

\* History: this call repeats the selectAccount that returned just before it.

\* select_account: GitHubServiceImpl.selectAccount(owner)
SelectAccount(owner) ==
  /\ status = "ready"
  /\ IF ~SelectAccountAccepts(owner)
     THEN /\ selectedOwner' = SlotAfterRejected(owner)
          /\ last' = [op |-> "selectAccount", arg |-> owner, ok |-> FALSE,
                      code |-> "InvalidParams", msg |-> "Invalid owner",
                      owners |-> listAccounts, value |-> Undefined, again |-> FALSE]
          /\ UNCHANGED lastSelected
     ELSE /\ selectedOwner' = SlotAfterAccepted(owner)
          /\ last' = [op |-> "selectAccount", arg |-> owner, ok |-> TRUE,
                      code |-> "", msg |-> "", owners |-> <<>>, value |-> Undefined,
                      again |-> (last.op = "selectAccount" /\ last.ok /\ last.arg = owner)]
          /\ lastSelected' = owner
  /\ UNCHANGED <<status, octokitInstances, config, remoteVars, call, tool, store>>

\* Lines 33-56: the slot after a resolution (neither getter assigns it).
SlotAfterResolve_Remembered(owner) == EffectiveOwnerOf(owner, selectedOwner)
SlotAfterResolve(owner) == selectedOwner

\* An owner-resolving call (every handler's first step).
ResolveOwner(owner) ==
  /\ status = "ready"
  /\ last' = Outcome("getEffectiveOwner", owner, getEffectiveOwner(owner))
  /\ selectedOwner' = SlotAfterResolve(owner)
  /\ UNCHANGED <<status, octokitInstances, config, lastSelected, remoteVars, call, tool, store>>

ClientFor(owner) ==
  /\ status = "ready"
  /\ last' = Outcome("getOctokitForOwner", owner, getOctokitForOwner(owner))
  /\ selectedOwner' = SlotAfterResolve(owner)
  /\ UNCHANGED <<status, octokitInstances, config, lastSelected, remoteVars, call, tool, store>>

ListAccounts ==
  /\ status = "ready"
  /\ last' = [NoResult EXCEPT !.op = "listAccounts", !.owners = listAccounts]
  /\ UNCHANGED <<status, octokitInstances, selectedOwner, config, lastSelected, remoteVars, call, tool, store>>


\* ------------------------------------------------------------------ remote objects
Paths == {"a.txt", "b.txt"}
Contents == {"v1", "v2"}
Repo == "github-mcp-server"

Absent == <<>>

\* The content address the remote object store returns for a blob.
BlobSha(content) == <<"blob", content>>

EmptyTree == [p \in Paths |-> Absent]

\* Tree of the commit the branch starts at.
InitialTree == [EmptyTree EXCEPT !["a.txt"] = BlobSha("v1")]

\* git.createTree({base_tree, tree}): the entries, in order, override the base.
RECURSIVE ApplyOverrides(_, _)
ApplyOverrides(base, entries) ==
  IF entries = <<>> THEN base
  ELSE ApplyOverrides([base EXCEPT ![Head(entries).path] = Head(entries).sha], Tail(entries))

\* Whether commit a is b or an ancestor of b.
RECURSIVE IsAncestor(_, _)
IsAncestor(a, b) ==
  \/ a = b
  \/ /\ commits[b].parents # <<>>
     /\ IsAncestor(a, commits[b].parents[1])

\* ------------------------------------------------------------------ create_commit
Calls == {"c1", "c2"}

Operations == {"add", "modify", "delete"}

\* CommitOperation.changes[i]; a delete change carries no sourcePath.
Changes ==
  {ch \in [path : Paths, operation : Operations, sourcePath : {"src", Undefined}] :
     ch.operation = "delete" => ch.sourcePath = Undefined}

RECURSIVE ChangeLists(_)
ChangeLists(n) ==
  IF n = 0 THEN {<<>>}
  ELSE ChangeLists(n - 1) \cup
       {Append(l, ch) : l \in {t \in ChangeLists(n - 1) : Len(t) = n - 1}, ch \in Changes}

NoOutcome == [kind |-> "none", code |-> "", msg |-> "", commit |-> 0, warning |-> ""]

IdleCall ==
  [pc |-> "idle",
   args |-> [owner |-> Undefined, repo |-> Repo, changes |-> <<>>, notify |-> FALSE],
   octokit |-> Undefined, effectiveOwner |-> Undefined,
   refSha |-> 0, baseTree |-> EmptyTree, i |-> 1, content |-> Undefined,
   trees |-> <<>>, read |-> <<>>, newTree |-> EmptyTree, newSha |-> 0,
   writes |-> [blob |-> 0, tree |-> 0, commit |-> 0, ref |-> 0],
   overwrote |-> 0, wrote |-> 0, verified |-> FALSE, notified |-> <<>>,
   toRevert |-> 0, result |-> NoOutcome]

\* The outer catch: every error leaves as McpError(InternalError,
\* "Failed to create commit: " + message).
Thrown(msg) ==
  [kind |-> "error", code |-> "InternalError", msg |-> msg, commit |-> 0, warning |-> ""]

\* createResponse(newCommit.data)
Success(sha) == [kind |-> "ok", code |-> "", msg |-> "", commit |-> sha, warning |-> ""]

\* createResponse({commit: newCommit.data, warning: ...})
Warned(sha) ==
  [kind |-> "warning", code |-> "", msg |-> "", commit |-> sha,
   warning |-> "Commit successful but failed to clear project changes"]

Finish(c, r, outcome) == call' = [call EXCEPT ![c] = [r EXCEPT !.pc = "done", !.result = outcome]]

\* Lines 13-20: the arguments are taken and owner and client are resolved.
Begin(c, owners, lists, notifies) ==
  /\ status = "ready"
  /\ call[c].pc = "idle"
  /\ \E owner \in owners, changes \in lists, notify \in notifies :
       LET r == [call[c] EXCEPT !.args = [owner |-> owner, repo |-> Repo,
                                          changes |-> changes, notify |-> notify]]
           octokit == getOctokitForOwner(owner)
           effectiveOwner == getEffectiveOwner(owner)
       IN IF ~octokit.ok
          THEN Finish(c, r, Thrown(octokit.msg))
          ELSE call' = [call EXCEPT ![c] = [r EXCEPT !.pc = "getRef",
                                                     !.octokit = octokit.value,
                                                     !.effectiveOwner = effectiveOwner.value]]
  /\ UNCHANGED <<store, tool, registryVars, remoteVars>>

\* Lines 24-28: git.getRef answers with the branch head.
GetRef(c) ==
  /\ call[c].pc = "getRef"
  /\ call' = [call EXCEPT ![c].pc = "getCommit", ![c].refSha = head]
  /\ UNCHANGED <<store, tool, registryVars, remoteVars>>

\* Lines 29-33: git.getCommit answers with the head commit, whose tree is the base.
GetCommit(c) ==
  /\ call[c].pc = "getCommit"
  /\ call' = [call EXCEPT ![c].pc = "loop",
                          ![c].baseTree = commits[call[c].refSha].tree]
  /\ UNCHANGED <<store, tool, registryVars, remoteVars>>

\* Lines 42-45: the tree entries a delete change contributes.
DeleteEntries_Removal(change) ==
  <<[path |-> change.path, mode |-> "100644", type |-> "blob", sha |-> Absent]>>
DeleteEntries(change) == <<>>

\* Lines 39-57: one iteration of the loop over the changes, up to the read of
\* the source file; the loop's end leads to the tree construction.
LoopStep(c) ==
  LET r == call[c] IN
  /\ r.pc = "loop"
  /\ IF r.i > Len(r.args.changes)
     THEN call' = [call EXCEPT ![c].pc = "createTree"]
     ELSE LET change == r.args.changes[r.i] IN
          IF change.operation = "delete"
          THEN call' = [call EXCEPT ![c].i = r.i + 1,
                                    ![c].trees = r.trees \o DeleteEntries(change),
                                    ![c].read = Append(r.read, Undefined)]
          ELSE IF ~Truthy(change.sourcePath)
          THEN Finish(c, r, Thrown("sourcePath required"))
          ELSE \/ \E content \in Contents :
                    call' = [call EXCEPT ![c].pc = "createBlob", ![c].content = content]
               \/ Finish(c, r, Thrown("source file unreadable"))
  /\ UNCHANGED <<store, tool, registryVars, remoteVars>>

\* Lines 60-73: git.createBlob answers; the entry is pushed onto trees.
CreateBlob(c) ==
  LET r == call[c] IN
  /\ r.pc = "createBlob"
  /\ call' = [call EXCEPT
       ![c].pc = "loop",
       ![c].i = r.i + 1,
       ![c].content = Undefined,
       ![c].read = Append(r.read, r.content),
       ![c].writes.blob = r.writes.blob + 1,
       ![c].trees = Append(r.trees, [path |-> r.args.changes[r.i].path, mode |-> "100644",
                                     type |-> "blob", sha |-> BlobSha(r.content)])]
  /\ UNCHANGED <<store, tool, registryVars, remoteVars>>

\* Line 82: the base_tree parameter of git.createTree.
BaseTreeParam_Omitted(c) == EmptyTree
BaseTreeParam(c) == call[c].baseTree

\* Lines 79-84: git.createTree answers.
CreateTree(c) ==
  LET r == call[c] IN
  /\ r.pc = "createTree"
  /\ call' = [call EXCEPT ![c].pc = "createCommit",
                          ![c].writes.tree = r.writes.tree + 1,
                          ![c].newTree = ApplyOverrides(BaseTreeParam(c), r.trees)]
  /\ UNCHANGED <<store, tool, registryVars, remoteVars>>

\* Line 93: the parents parameter of git.createCommit.
ParentsParam_None(c) == <<>>
ParentsParam(c) == <<call[c].refSha>>

\* Lines 88-105: git.createCommit answers with the new commit object.
CreateCommit(c) ==
  LET r == call[c] IN
  /\ r.pc = "createCommit"
  /\ commits' = Append(commits, [tree |-> r.newTree, parents |-> ParentsParam(c),
                                 by |-> c])
  /\ call' = [call EXCEPT ![c].pc = "updateRef",
                          ![c].writes.commit = r.writes.commit + 1,
                          ![c].newSha = Len(commits) + 1]
  /\ UNCHANGED <<store, tool, registryVars, head, refWriter, extPushes>>

\* Lines 110-115: what the handler requires of the head before it sends
\* git.updateRef (nothing: the head read at line 24 is not compared).
UpdateRefGuard_CompareAndSwap(c) == head = call[c].refSha
UpdateRefGuard(c) == TRUE

\* Lines 110-115: git.updateRef is accepted.  The request carries no force
\* flag; whether the remote accepts an update that is not a fast-forward is the
\* remote's decision, and both answers are modelled (see RemoteFails).
UpdateRef(c) ==
  LET r == call[c] IN
  /\ r.pc = "updateRef"
  /\ UpdateRefGuard(c)
  /\ head' = r.newSha
  /\ refWriter' = c
  /\ call' = [call EXCEPT ![c].pc = "verify",
                          ![c].writes.ref = r.writes.ref + 1,
                          ![c].overwrote = head,
                          ![c].wrote = r.newSha]
  /\ UNCHANGED <<store, tool, registryVars, commits, extPushes>>

\* Any of the remote calls up to and including git.updateRef throws (the
\* branch does not exist, the service is unreachable, the update is rejected).
RemoteFailureOutcome_Warned(c) == Warned(call[c].newSha)
RemoteFailureOutcome(c) == Thrown("remote service error")

RemoteFails(c) ==
  /\ call[c].pc \in {"getRef", "getCommit", "createBlob", "createTree",
                     "createCommit", "updateRef"}
  /\ Finish(c, call[c], RemoteFailureOutcome(c))
  /\ UNCHANGED <<store, tool, registryVars, remoteVars>>

\* Lines 148-157: the inner catch, reached when the verification read throws.
VerifyFailureOutcome_Rethrown(c) == Thrown("remote service error")
VerifyFailureOutcome(c) == Warned(call[c].newSha)

\* Lines 119-147: the new commit is read back (the remote's answer to
\* git.createCommit always carries the hash, so the test of line 119 passes).
Verify(c) ==
  LET r == call[c] IN
  /\ r.pc = "verify"
  /\ \/ IF r.args.notify
        THEN call' = [call EXCEPT ![c].pc = "notify", ![c].verified = TRUE]
        ELSE Finish(c, [r EXCEPT !.verified = TRUE], Success(r.newSha))
     \/ Finish(c, r, VerifyFailureOutcome(c))
  /\ UNCHANGED <<store, tool, registryVars, remoteVars>>

\* Line 143: the arguments of the callback.
NotifyArgs_OldHead(c) == <<call[c].args.repo, call[c].refSha>>
NotifyArgs(c) == <<call[c].args.repo, call[c].newSha>>

\* Lines 154-157: the commit data of the warning response.
WarningCommit_OldHead(c) == call[c].refSha
WarningCommit(c) == call[c].newSha

\* Lines 136-158: notifyDevHub is awaited; it returns or throws.
Notify(c) ==
  LET r == [call[c] EXCEPT !.notified = Append(call[c].notified, NotifyArgs(c))] IN
  /\ call[c].pc = "notify"
  /\ \/ Finish(c, r, Success(r.newSha))
     \/ Finish(c, r, Warned(WarningCommit(c)))
  /\ UNCHANGED <<store, tool, registryVars, remoteVars>>

\* A writer outside this server pushes a commit onto the branch.
ExternalPush ==
  /\ status = "ready"
  /\ extPushes < MaxExternal
  /\ commits' = Append(commits,
                       [tree |-> [commits[head].tree EXCEPT !["b.txt"] = BlobSha("v2")],
                        parents |-> <<head>>, by |-> "ext"])
  /\ head' = Len(commits) + 1
  /\ refWriter' = "ext"
  /\ extPushes' = extPushes + 1
  /\ UNCHANGED <<store, tool, registryVars, call>>

Step(c) ==
  \/ GetRef(c)
  \/ GetCommit(c)
  \/ LoopStep(c)
  \/ CreateBlob(c)
  \/ CreateTree(c)
  \/ CreateCommit(c)
  \/ UpdateRef(c)
  \/ RemoteFails(c)
  \/ Verify(c)
  \/ Notify(c)

\* ------------------------------------------------------------------ project store
MaxProjects == 2

\* A tracked project: its name, its repository's name (Undefined when it has
\* no repository), its pending changes and its lastCommit (0 when unset).
Project(name, repository, changes, lastCommit) ==
  [name |-> name, repository |-> repository, changes |-> changes,
   lastCommit |-> lastCommit]

\* index.ts, lines 92-104: the project the store is initialised with.
DefaultProject == Project("github-server", "github-mcp-server", <<>>, 0)

\* Map.set(p.name, p) on the values of a Map keyed by name.
RECURSIVE ProjectSet(_, _)
ProjectSet(projects, p) ==
  IF projects = <<>> THEN <<p>>
  ELSE IF Head(projects).name = p.name THEN <<p>> \o Tail(projects)
  ELSE <<Head(projects)>> \o ProjectSet(Tail(projects), p)

\* Line 86: new Map(projects.map(p => [p.name, p]))
RECURSIVE ProjectMap(_, _)
ProjectMap(list, map) ==
  IF list = <<>> THEN map ELSE ProjectMap(Tail(list), ProjectSet(map, Head(list)))

\* Lines 165-169: {...project, changes: [], lastCommit: commitSha}
UpdatedProject_KeepsChanges(project, commitSha) == [project EXCEPT !.lastCommit = commitSha]
UpdatedProject(project, commitSha) ==
  [project EXCEPT !.changes = <<>>, !.lastCommit = commitSha]

\* Lines 81-112, loadProjects: the file is read and the Map rebuilt from it;
\* when the file does not exist the Map is initialised and saved; a failing
\* read leaves the Map as it is, a failing save leaves the file as it is.
loadProjects(s) ==
  IF s.file = "present"
  THEN {[ok |-> TRUE, store |-> [s EXCEPT !.projects = ProjectMap(s.disk, <<>>)]],
        [ok |-> FALSE, store |-> s]}
  ELSE {[ok |-> TRUE, store |-> [s EXCEPT !.projects = <<DefaultProject>>,
                                          !.file = "present",
                                          !.disk = <<DefaultProject>>]],
        [ok |-> FALSE, store |-> [s EXCEPT !.projects = <<DefaultProject>>]]}

\* Lines 318-332, run(): the projects are loaded before the server is
\* connected; when that fails the server does not start.
Startup ==
  /\ status = "ready"
  /\ ~store.started
  /\ \E o \in loadProjects(store) : store' = [o.store EXCEPT !.started = o.ok]
  /\ UNCHANGED <<registryVars, remoteVars, call, tool>>

\* Lines 135-138: the callback reloads the projects; a failure leaves it as
\* an error, which the commit handler turns into the warning response.
ClearLoad(c) ==
  LET r == [call[c] EXCEPT !.notified = Append(call[c].notified, NotifyArgs(c))] IN
  /\ call[c].pc = "notify"
  /\ \E o \in loadProjects(store) :
       /\ store' = o.store
       /\ IF o.ok
          THEN call' = [call EXCEPT ![c] = [r EXCEPT !.pc = "clear.update"]]
          ELSE Finish(c, r, Warned(WarningCommit(c)))
  /\ UNCHANGED <<tool, registryVars, remoteVars>>

\* Lines 149-172: the first project p of the Map with
\* p.repository?.name?.toLowerCase() === repo.toLowerCase() is looked up (found
\* is its index, 0 when there is none) and replaced in the Map.
ClearUpdate(c) ==
  LET r == call[c]
      repo == NotifyArgs(c)[1]
      commitSha == NotifyArgs(c)[2]
      matching == {i \in 1..Len(store.projects) :
                     /\ store.projects[i].repository # Undefined
                     /\ toLowerCase(store.projects[i].repository) = toLowerCase(repo)}
      found == IF matching = {} THEN 0 ELSE Min(matching)
  IN /\ r.pc = "clear.update"
     /\ IF found = 0
        THEN /\ Finish(c, r, Warned(WarningCommit(c)))
             /\ UNCHANGED store
        ELSE /\ store' = [store EXCEPT !.projects =
                            ProjectSet(@, UpdatedProject(store.projects[found], commitSha))]
             /\ call' = [call EXCEPT ![c].pc = "clear.save"]
     /\ UNCHANGED <<tool, registryVars, remoteVars>>

\* Lines 181-187 and 114-131: the values of the Map are written to the file,
\* or the write fails and the callback throws.
ClearSave(c) ==
  LET r == call[c] IN
  /\ r.pc = "clear.save"
  /\ \/ /\ store' = [store EXCEPT !.disk = store.projects]
        /\ Finish(c, r, Success(r.newSha))
     \/ /\ Finish(c, r, Warned(WarningCommit(c)))
        /\ UNCHANGED store
  /\ UNCHANGED <<tool, registryVars, remoteVars>>

\* ------------------------------------------------------------------ revert_commit
\* Lines 252-258: the arguments are taken and, inside the try, owner and
\* client are resolved.  commit_sha is a hash the repository knows (an unknown
\* one is a remote failure, see RevertRemoteFails).
RevertBegin(c, owners) ==
  /\ status = "ready"
  /\ call[c].pc = "idle"
  /\ \E owner \in owners, commit_sha \in 1..Len(commits) :
       LET r == [call[c] EXCEPT !.args.owner = owner, !.toRevert = commit_sha]
           octokit == getOctokitForOwner(owner)
           effectiveOwner == getEffectiveOwner(owner)
       IN IF ~octokit.ok
          THEN Finish(c, r, Thrown(octokit.msg))
          ELSE call' = [call EXCEPT ![c] = [r EXCEPT !.pc = "revert.getCommit",
                                                     !.octokit = octokit.value,
                                                     !.effectiveOwner = effectiveOwner.value]]
  /\ UNCHANGED <<store, tool, registryVars, remoteVars>>

\* Lines 261-265: git.getCommit answers with the commit to revert.
RevertGetCommit(c) ==
  /\ call[c].pc = "revert.getCommit"
  /\ call' = [call EXCEPT ![c].pc = "revert.getRef"]
  /\ UNCHANGED <<store, tool, registryVars, remoteVars>>

\* Lines 268-272: git.getRef answers with the branch head.
RevertGetRef(c) ==
  /\ call[c].pc = "revert.getRef"
  /\ call' = [call EXCEPT ![c].pc = "revert.getTree", ![c].refSha = head]
  /\ UNCHANGED <<store, tool, registryVars, remoteVars>>

\* Lines 275-279: git.getTree answers with the tree of the first parent of the
\* commit to revert, which is the tree the new commit gets (line 286); reading
\* parents[0].sha of a commit without parents throws a TypeError, which the
\* catch of line 299 wraps.
RevertGetTree(c) ==
  LET r == call[c] IN
  /\ r.pc = "revert.getTree"
  /\ IF commits[r.toRevert].parents = <<>>
     THEN Finish(c, r, Thrown("Cannot read properties of undefined"))
     ELSE call' = [call EXCEPT ![c].pc = "revert.createCommit",
                               ![c].newTree = commits[commits[r.toRevert].parents[1]].tree]
  /\ UNCHANGED <<store, tool, registryVars, remoteVars>>

\* Lines 282-288: git.createCommit answers with the revert commit, whose only
\* parent is the head read.
RevertCreateCommit(c) ==
  LET r == call[c] IN
  /\ r.pc = "revert.createCommit"
  /\ commits' = Append(commits, [tree |-> r.newTree, parents |-> <<r.refSha>>,
                                 by |-> c])
  /\ call' = [call EXCEPT ![c].pc = "revert.updateRef",
                          ![c].writes.commit = r.writes.commit + 1,
                          ![c].newSha = Len(commits) + 1]
  /\ UNCHANGED <<store, tool, registryVars, head, refWriter, extPushes>>

\* Lines 291-298: git.updateRef is accepted and the commit is returned.
RevertUpdateRef(c) ==
  LET r == [call[c] EXCEPT !.writes.ref = call[c].writes.ref + 1,
                           !.overwrote = head,
                           !.wrote = call[c].newSha] IN
  /\ call[c].pc = "revert.updateRef"
  /\ head' = r.newSha
  /\ refWriter' = c
  /\ Finish(c, r, Success(r.newSha))
  /\ UNCHANGED <<store, tool, registryVars, commits, extPushes>>

\* Lines 299-305: any remote call throws; the catch wraps the error.
RevertRemoteFails(c) ==
  /\ call[c].pc \in {"revert.getCommit", "revert.getRef", "revert.getTree",
                     "revert.createCommit", "revert.updateRef"}
  /\ Finish(c, call[c], Thrown("remote service error"))
  /\ UNCHANGED <<store, tool, registryVars, remoteVars>>

\* ------------------------------------------------------------------ file tools
MaxDepth == 2
MaxLocalFiles == 1

Front(q) == SubSeq(q, 1, Len(q) - 1)

\* A path is the sequence of its names: `${a}/${b}` is Append(a, b).
Join(dir, name) == Append(dir, name)

\* An error object: McpError or not, its code, the HTTP status of a remote
\* error, and its message as the sequence of the parts joined by ": ".
Err(mcp, code, httpStatus, msg) ==
  [mcp |-> mcp, code |-> code, status |-> httpStatus, msg |-> msg]

NoError == Err(FALSE, "", 0, <<>>)

PlainError(msg) == Err(FALSE, "", 0, msg)

McpError(code, msg) == Err(TRUE, code, 0, msg)

\* What a registry operation throws.
RegistryError(refusal) == McpError(refusal.code, <<refusal.msg>>)

\* What octokit throws when the remote service answers with an error status.
RequestError(httpStatus) == Err(FALSE, "", httpStatus, <<"remote service error">>)

\* What fs throws.
IoError == PlainError(<<"ENOENT">>)

\* catch (error) { throw new McpError(InternalError, `${prefix}: ${error.message}`) }
Caught(prefix, error) == McpError("InternalError", <<prefix>> \o error.msg)

Prefix(fn) ==
  CASE fn = "handlePullDirectory" -> "Failed to pull directory"
    [] fn = "handleSyncDirectory" -> "Failed to sync directory"
    [] fn = "handlePushFile" -> "Failed to push file"
    [] fn = "handleCreateOrUpdateFile" -> "Failed to create/update file"
    [] fn = "handleDeleteFile" -> "Failed to delete file"
    [] fn = "handleRenameRepository" -> "Failed to rename repository"

validateArgs(args, requiredFields) ==
  IF ~args.given THEN PlainError(<<"Arguments are required">>)
  ELSE LET missing == {i \in 1..Len(requiredFields) : requiredFields[i] \notin args.keys} IN
       IF missing # {}
       THEN PlainError(<<"Missing required field", requiredFields[Min(missing)]>>)
       ELSE NoError

\* Buffer.from(text).toString('base64') and back.
Base64(text) == <<"base64", text>>

FromBase64(encoded) == encoded[2]

\* The arguments object of a handler: the keys it has, and the values of the
\* keys the handlers look at (a key that is absent reads as undefined).
Args(keys, owner, path, out, sourcePath, sha, recursive) ==
  [given |-> TRUE, keys |-> keys, owner |-> owner, path |-> path, out |-> out,
   sourcePath |-> sourcePath, sha |-> sha, recursive |-> recursive]

NoArgs == [Args({}, Undefined, <<>>, <<>>, <<>>, Undefined, TRUE) EXCEPT !.given = FALSE]

\* An activation of a handler, suspended at an await.
Frame(fn, pc, args, owner, octokit) ==
  [fn |-> fn, pc |-> pc, args |-> args, owner |-> owner, octokit |-> octokit,
   items |-> <<>>, i |-> 1, n |-> 0, sha |-> Undefined, content |-> <<>>]

NoFrame == Frame("", "", NoArgs, Undefined, Undefined)

Enters(frame) == [err |-> NoError, frame |-> frame]

Refuses(error) == [err |-> error, frame |-> NoFrame]

\* The code of a handler from its entry to its first await: validation, the
\* owner (outside the try) and the client (inside it).
Resolved_SelectedClient(fn, pc, args) ==
  LET effectiveOwner == getEffectiveOwner(args.owner)
      octokit == getOctokitForOwner(Undefined)
  IN IF ~effectiveOwner.ok THEN Refuses(RegistryError(effectiveOwner))
     ELSE IF ~octokit.ok THEN Refuses(Caught(Prefix(fn), RegistryError(octokit)))
     ELSE Enters(Frame(fn, pc, args, effectiveOwner.value, octokit.value))

Resolved(fn, pc, args) ==
  LET effectiveOwner == getEffectiveOwner(args.owner)
      octokit == getOctokitForOwner(args.owner)
  IN IF ~effectiveOwner.ok THEN Refuses(RegistryError(effectiveOwner))
     ELSE IF ~octokit.ok THEN Refuses(Caught(Prefix(fn), RegistryError(octokit)))
     ELSE Enters(Frame(fn, pc, args, effectiveOwner.value, octokit.value))

\* handlePushFile, lines 232-237.
handlePushFile(args) ==
  LET invalid == validateArgs(args, <<"repo", "path", "message", "sourcePath">>)
      effectiveOwner == getEffectiveOwner(args.owner)
  IN IF invalid # NoError THEN Refuses(invalid)
     ELSE IF ~effectiveOwner.ok THEN Refuses(RegistryError(effectiveOwner))
     ELSE Enters(Frame("handlePushFile", "readFile", args, effectiveOwner.value, Undefined))

\* Line 269: 'content' in args.
InlineContent_Allowed(args) == FALSE
InlineContent(args) == "content" \in args.keys

\* handleCreateOrUpdateFile, lines 263-281.
handleCreateOrUpdateFile(args) ==
  LET invalid == validateArgs(args, <<"repo", "path", "message", "sourcePath">>) IN
  IF ~args.given THEN Refuses(McpError("InvalidParams", <<"Arguments are required">>))
  ELSE IF InlineContent(args)
  THEN Refuses(McpError("InvalidParams", <<"Direct content upload is not allowed">>))
  ELSE IF invalid # NoError THEN Refuses(invalid)
  ELSE Resolved("handleCreateOrUpdateFile", "readFile", args)

\* handleDeleteFile, lines 372-378.
handleDeleteFile(args) ==
  LET invalid == validateArgs(args, <<"repo", "path", "message">>) IN
  IF invalid # NoError THEN Refuses(invalid)
  ELSE Resolved("handleDeleteFile", "lookup", args)

\* handlePullDirectory, lines 52-58.
handlePullDirectory(args) ==
  LET invalid == validateArgs(args, <<"repo", "path", "outputPath">>) IN
  IF invalid # NoError THEN Refuses(invalid)
  ELSE Resolved("handlePullDirectory", "list", args)

\* handleSyncDirectory, lines 126-131.
handleSyncDirectory(args) ==
  LET invalid == validateArgs(args, <<"repo", "path", "localPath">>)
      effectiveOwner == getEffectiveOwner(args.owner)
  IN IF invalid # NoError THEN Refuses(invalid)
     ELSE IF ~effectiveOwner.ok THEN Refuses(RegistryError(effectiveOwner))
     ELSE Enters(Frame("handleSyncDirectory", "pull", args, effectiveOwner.value, Undefined))

\* handleRenameRepository, lines 120-126: no field is validated, and both
\* registry calls are inside the try.
handleRenameRepository(args) ==
  LET octokit == getOctokitForOwner(args.owner)
      effectiveOwner == getEffectiveOwner(args.owner)
  IN IF ~args.given THEN Refuses(PlainError(<<"Arguments are required">>))
     ELSE IF ~octokit.ok
     THEN Refuses(Caught(Prefix("handleRenameRepository"), RegistryError(octokit)))
     ELSE Enters(Frame("handleRenameRepository", "update", args,
                       effectiveOwner.value, octokit.value))

Entry(fn, args) ==
  CASE fn = "handlePushFile" -> handlePushFile(args)
    [] fn = "handleCreateOrUpdateFile" -> handleCreateOrUpdateFile(args)
    [] fn = "handleDeleteFile" -> handleDeleteFile(args)
    [] fn = "handlePullDirectory" -> handlePullDirectory(args)
    [] fn = "handleSyncDirectory" -> handleSyncDirectory(args)
    [] fn = "handleRenameRepository" -> handleRenameRepository(args)

\* ------------------------------------------------------------------ tool boundary
\* The data of a response: its text and, where the handler counts, the count.
Data(text, processedFiles) == [text |-> text, processedFiles |-> processedFiles]

createResponse(data, isError) ==
  [form |-> "payload", isError |-> isError, code |-> "", data |-> data]

\* An McpError that leaves the request handler: the protocol layer answers
\* the request with an error of that code and message.
ProtocolError(error) ==
  [form |-> "error", isError |-> FALSE, code |-> error.code, data |-> Data(error.msg, 0)]

NoResponse == [form |-> "none", isError |-> FALSE, code |-> "", data |-> Data(<<>>, 0)]

ReturnedOutcome(payload) == [kind |-> "returned", err |-> NoError, payload |-> payload]

ThrownOutcome(error) == [kind |-> "thrown", err |-> error, payload |-> NoResponse]

NoToolOutcome == [kind |-> "none", err |-> NoError, payload |-> NoResponse]

\* Line 310: if (error instanceof McpError) throw error.
Rethrows_Never(error) == FALSE
Rethrows(error) == error.mcp

\* index.ts, lines 232-314: what the request handler does with the outcome of
\* the handler it dispatched to.
Boundary(outcome) ==
  IF outcome.kind = "returned" THEN outcome.payload
  ELSE IF Rethrows(outcome.err) THEN ProtocolError(outcome.err)
  ELSE createResponse(Data(outcome.err.msg, 0), TRUE)

\* ------------------------------------------------------------------ tool invocations
\* The remote repository holds the directory docs, with a subdirectory sub
\* nested MaxDepth deep; the innermost one holds a symbolic link.
IsDirectory(path) ==
  /\ Len(path) \in 1..(MaxDepth + 1)
  /\ path[1] = "docs"
  /\ \A k \in 2..Len(path) : path[k] = "sub"

\* The array repos.getContent answers a directory path with.
Listing(path) ==
  IF Len(path) <= MaxDepth
  THEN <<[name |-> "a.md", type |-> "file"], [name |-> "sub", type |-> "dir"],
         [name |-> "z.md", type |-> "file"]>>
  ELSE <<[name |-> "a.md", type |-> "file"], [name |-> "ln", type |-> "symlink"]>>

RemoteShas == {"sha1", "sha2"}

LocalName(k) == <<"l1.md", "l2.md", "l3.md", "l4.md">>[k]

\* A request sent to the remote service, and (history) how it was answered.
Request(api, owner, path, sha, content, name) ==
  [api |-> api, owner |-> owner, path |-> path, sha |-> sha, content |-> content,
   name |-> name, answer |-> "", octokit |-> Undefined]

IdleTool ==
  [phase |-> "idle", name |-> "", args |-> NoArgs,
   local |-> 0,       \* number of files the local directory holds beforehand
   stack |-> <<>>,    \* the activations, the running one last
   requests |-> <<>>, \* history: the requests sent to the remote service
   reads |-> <<>>,    \* history: the local files read
   mkdirs |-> <<>>,   \* history: the local directories created
   writes |-> <<>>,   \* history: the local files written
   attempted |-> <<>>, \* history: the local files sync_directory went to push
   outcome |-> NoToolOutcome, response |-> NoResponse]

Top(t) == t.stack[Len(t.stack)]

\* The root handler has returned or thrown: the request handler answers.
Ends(t, outcome) ==
  [t EXCEPT !.phase = "done", !.stack = <<>>, !.outcome = outcome,
            !.response = Boundary(outcome)]

\* The running activation returns: its caller goes on.
RECURSIVE Return(_, _)
Return(t, payload) ==
  LET callers == Front(t.stack) IN
  IF callers = <<>> THEN Ends(t, ReturnedOutcome(payload))
  ELSE LET f == callers[Len(callers)]
           resumed(g) == [t EXCEPT !.stack = Append(Front(callers), g)]
       IN CASE f.fn = "handlePushFile" -> Return([t EXCEPT !.stack = callers], payload)
            [] f.fn = "handlePullDirectory" -> resumed([f EXCEPT !.i = @ + 1])
            [] f.fn = "handleSyncDirectory" /\ f.pc = "pull" ->
                 resumed([f EXCEPT !.pc = "readdir"])
            [] f.fn = "handleSyncDirectory" /\ f.pc = "push" ->
                 resumed([f EXCEPT !.pc = "file", !.i = @ + 1, !.n = @ + 1])

\* Lines 113-119, 168-174: a caller's catch throws again; none of them goes on.
Swallows_SyncLoop(f) == f.fn = "handleSyncDirectory" /\ f.pc = "push"
Swallows(f) == FALSE

\* An error reaches the callers of the running activation and travels up
\* through them. handlePushFile returns the promise of handleCreateOrUpdateFile
\* without awaiting it, so its catch does not see the rejection; every other
\* caller awaits inside its try.
RECURSIVE Raised(_, _, _)
Raised(t, callers, error) ==
  IF callers = <<>> THEN Ends(t, ThrownOutcome(error))
  ELSE LET f == callers[Len(callers)] IN
       IF Swallows(f)
       THEN Return([t EXCEPT !.stack = Append(callers, NoFrame)], NoResponse)
       ELSE Raised(t, Front(callers),
                   IF f.fn = "handlePushFile" THEN error ELSE Caught(Prefix(f.fn), error))

\* The running activation throws inside its try.
Throw(t, error) == Raised(t, Front(t.stack), Caught(Prefix(Top(t).fn), error))

\* Lines 133-139: the arguments handleSyncDirectory pulls with.
PullArgsOfSync(args) ==
  Args({"owner", "repo", "path", "outputPath", "branch"},
       args.owner, args.path, args.out, <<>>, Undefined, TRUE)

\* A handler is called with the activations of t as its callers; it runs to
\* its first await (handleSyncDirectory's first await is its pull).
RECURSIVE Called(_, _, _)
Called(t, fn, args) ==
  LET e == Entry(fn, args) IN
  IF e.err # NoError THEN Raised(t, t.stack, e.err)
  ELSE LET u == [t EXCEPT !.stack = Append(@, e.frame)] IN
       IF fn = "handleSyncDirectory"
       THEN Called(u, "handlePullDirectory", PullArgsOfSync(args))
       ELSE u

Running == tool.phase = "running"

\* The running activation with some of its fields changed.
Goto(t, f) == [t EXCEPT !.stack = Append(Front(t.stack), f)]

\* A request goes out through the client the sending handler resolved.
Sent(t, request) ==
  [t EXCEPT !.requests = Append(@, [request EXCEPT !.octokit = Top(t).octokit])]

Answered(t, answer) == [t EXCEPT !.requests[Len(t.requests)].answer = answer]

otherVars == <<registryVars, remoteVars, call, store>>

\* Lines 242-249: the arguments handlePushFile calls handleCreateOrUpdateFile
\* with: the text it read under the key content, and no sourcePath.
CreateArgsOfPush(args) ==
  Args({"owner", "repo", "path", "message", "content", "branch"},
       args.owner, args.path, <<>>, <<>>, Undefined, TRUE)

\* Lines 239-249 and 284-289: fs.readFile(sourcePath) returns the text or throws.
ReadSource ==
  LET f == Top(tool)
      t == [tool EXCEPT !.reads = Append(@, f.args.sourcePath)]
  IN /\ Running
     /\ f.pc = "readFile"
     /\ \/ tool' = Throw(t, IoError)
        \/ \E text \in Contents :
             tool' = IF f.fn = "handlePushFile"
                     THEN Called(Goto(t, [f EXCEPT !.pc = "tail"]),
                                 "handleCreateOrUpdateFile", CreateArgsOfPush(f.args))
                     ELSE Goto(t, [f EXCEPT !.content = Base64(text),
                                            !.sha = f.args.sha,
                                            !.pc = IF Truthy(f.args.sha) THEN "upsert"
                                                                         ELSE "lookup"])
     /\ UNCHANGED otherVars

StatusText(httpStatus) ==
  CASE httpStatus = 404 -> "404" [] httpStatus = 409 -> "409"
    [] httpStatus = 422 -> "422" [] OTHER -> "500"

\* Line 303: if (error.status !== 404) throw error.
LookupIsFatal_Never(error) == FALSE
LookupIsFatal(error) == error.status # 404

\* Lines 290-306: the lookup of the current hash.
LookupSha ==
  LET f == Top(tool)
      t == Sent(tool, Request("getContent", f.owner, f.args.path, Undefined, <<>>, Undefined))
  IN /\ Running
     /\ f.fn = "handleCreateOrUpdateFile" /\ f.pc = "lookup"
     /\ \/ \E sha \in RemoteShas :
             tool' = Goto(Answered(t, sha), [f EXCEPT !.sha = sha, !.pc = "upsert"])
        \/ tool' = Goto(Answered(t, "array"), [f EXCEPT !.pc = "upsert"])
        \/ \E httpStatus \in {404, 500} :
             tool' = IF LookupIsFatal(RequestError(httpStatus))
                     THEN Throw(Answered(t, StatusText(httpStatus)), RequestError(httpStatus))
                     ELSE Goto(Answered(t, StatusText(httpStatus)), [f EXCEPT !.pc = "upsert"])
     /\ UNCHANGED otherVars

\* Line 316: ...(sha ? { sha } : {})
UpsertSha(sha) == IF Truthy(sha) THEN sha ELSE Undefined

\* Lines 309-319: repos.createOrUpdateFileContents answers or throws.
Upsert ==
  LET f == Top(tool)
      t == Sent(tool, Request("createOrUpdateFileContents", f.owner, f.args.path,
                              UpsertSha(f.sha), f.content, Undefined))
  IN /\ Running
     /\ f.pc = "upsert"
     /\ \/ tool' = Return(Answered(t, "ok"), createResponse(Data(<<"content">>, 0), FALSE))
        \/ tool' = Throw(Answered(t, "409"), RequestError(409))
     /\ UNCHANGED otherVars

\* Lines 381-393: the lookup delete_file starts with.
DeleteLookup ==
  LET f == Top(tool)
      t == Sent(tool, Request("getContent", f.owner, f.args.path, Undefined, <<>>, Undefined))
  IN /\ Running
     /\ f.fn = "handleDeleteFile" /\ f.pc = "lookup"
     /\ \/ \E sha \in RemoteShas :
             tool' = Goto(Answered(t, sha), [f EXCEPT !.sha = sha, !.pc = "delete"])
        \/ tool' = Throw(Answered(t, "array"),
                         McpError("InvalidParams", <<"Invalid file data received">>))
        \/ \E httpStatus \in {404, 500} :
             tool' = Throw(Answered(t, StatusText(httpStatus)), RequestError(httpStatus))
     /\ UNCHANGED otherVars

\* Line 401: sha: fileData.data.sha
DeleteSha_Supplied(f) == f.args.sha
DeleteSha(f) == f.sha

\* Lines 396-405: repos.deleteFile answers or throws.
Delete ==
  LET f == Top(tool)
      t == Sent(tool, Request("deleteFile", f.owner, f.args.path, DeleteSha(f), <<>>, Undefined))
  IN /\ Running
     /\ f.pc = "delete"
     /\ \/ tool' = Return(Answered(t, "ok"), createResponse(Data(<<"commit">>, 0), FALSE))
        \/ tool' = Throw(Answered(t, "409"), RequestError(409))
     /\ UNCHANGED otherVars

\* Lines 128-134: repos.update answers or throws.
Rename ==
  LET f == Top(tool)
      t == Sent(tool, Request("repos.update", f.owner, <<>>, Undefined, <<>>,
                              IF "new_name" \in f.args.keys THEN "renamed" ELSE Undefined))
  IN /\ Running
     /\ f.pc = "update"
     /\ \/ tool' = Return(Answered(t, "ok"), createResponse(Data(<<"repository">>, 0), FALSE))
        \/ tool' = Throw(Answered(t, "422"), RequestError(422))
     /\ UNCHANGED otherVars

\* The base64 content the remote holds for a file.
RemoteContent(path) == Base64(IF path[Len(path)] = "a.md" THEN "v1" ELSE "v2")

\* Line 53: recursive = true unless the caller says otherwise.
Recursive(args) == IF "recursive" \in args.keys THEN args.recursive ELSE TRUE

\* Lines 61-76: the listing is read and the output directory created.
PullList ==
  LET f == Top(tool)
      t == Sent(tool, Request("getContent", f.owner, f.args.path, Undefined, <<>>, Undefined))
  IN /\ Running
     /\ f.pc = "list"
     /\ \/ /\ IsDirectory(f.args.path)
           /\ \/ tool' = Goto([Answered(t, "array") EXCEPT !.mkdirs = Append(@, f.args.out)],
                              [f EXCEPT !.items = Listing(f.args.path), !.pc = "item"])
              \/ tool' = Throw(Answered(t, "array"), IoError)
        \/ /\ ~IsDirectory(f.args.path)
           /\ tool' = Throw(Answered(t, "file"),
                            McpError("InvalidParams", <<"Path is not a directory">>))
        \/ tool' = Throw(Answered(t, "404"), RequestError(404))
     /\ UNCHANGED otherVars

\* Line 96: item.type === 'dir' && recursive
Descends_Always(item, recursive) == item.type = "dir"
Descends(item, recursive) == item.type = "dir" /\ recursive

\* Line 81: const itemPath = `${outputPath}/${item.name}`
ItemPath_Flat(outputPath, item) == outputPath
ItemPath(outputPath, item) == Join(outputPath, item.name)

\* Lines 97-104: the arguments of the nested pull.
NestedPullArgs(args, item) ==
  Args({"owner", "repo", "path", "outputPath", "branch", "recursive"},
       args.owner, Join(args.path, item.name), ItemPath(args.out, item), <<>>,
       Undefined, Recursive(args))

\* Lines 80-112: one round of the loop over the listing, or the return after it.
PullItem ==
  LET f == Top(tool)
      item == f.items[f.i]
      next == [f EXCEPT !.i = @ + 1]
      t == Sent(tool, Request("getContent", f.owner, Join(f.args.path, item.name),
                              Undefined, <<>>, Undefined))
      written == [path |-> ItemPath(f.args.out, item),
                  content |-> FromBase64(RemoteContent(Join(f.args.path, item.name)))]
  IN /\ Running
     /\ f.fn = "handlePullDirectory" /\ f.pc = "item"
     /\ \/ /\ f.i > Len(f.items)
           /\ tool' = Return(tool, createResponse(Data(<<"Directory pulled successfully">>, f.n),
                                                  FALSE))
        \/ /\ f.i <= Len(f.items)
           /\ item.type = "file"
           /\ \/ tool' = Goto([Answered(t, "file") EXCEPT !.writes = Append(@, written)],
                              [next EXCEPT !.n = @ + 1])
              \/ tool' = Throw(Answered(t, "file"), IoError)
              \/ tool' = Goto(Answered(t, "no content"), next)
              \/ tool' = Throw(Answered(t, "500"), RequestError(500))
        \/ /\ f.i <= Len(f.items)
           /\ item.type # "file"
           /\ tool' = IF Descends(item, Recursive(f.args))
                      THEN Called(tool, "handlePullDirectory", NestedPullArgs(f.args, item))
                      ELSE Goto(tool, next)
     /\ UNCHANGED otherVars

\* What fs.readdir(dir, {withFileTypes: true}) answers: the files the directory
\* held beforehand, the files written into it and the directories made in it.
Dirents(t, dir) ==
  LET files == SelectSeq(t.writes, LAMBDA w : Front(w.path) = dir)
      dirs == SelectSeq(t.mkdirs, LAMBDA d : d # <<>> /\ Front(d) = dir)
  IN [k \in 1..t.local |-> [name |-> LocalName(k), type |-> "file"]]
     \o [k \in 1..Len(files) |-> [name |-> files[k].path[Len(files[k].path)], type |-> "file"]]
     \o [k \in 1..Len(dirs) |-> [name |-> dirs[k][Len(dirs[k])], type |-> "dir"]]

\* Line 142: fs.readdir(localPath) answers or throws.
SyncReaddir ==
  LET f == Top(tool) IN
  /\ Running
  /\ f.fn = "handleSyncDirectory" /\ f.pc = "readdir"
  /\ \/ tool' = Goto(tool, [f EXCEPT !.items = Dirents(tool, f.args.out), !.pc = "file"])
     \/ tool' = Throw(tool, IoError)
  /\ UNCHANGED otherVars

\* Lines 150-157: the arguments of the push of one local file.
PushArgsOfSync(args, file) ==
  Args({"owner", "repo", "path", "message", "sourcePath", "branch"},
       args.owner, Join(args.path, file.name), <<>>, Join(args.out, file.name),
       Undefined, TRUE)

\* Lines 145-167: one round of the loop over the local entries, or the return
\* after it.
SyncFile ==
  LET f == Top(tool)
      file == f.items[f.i]
      t == [tool EXCEPT !.reads = Append(@, Join(f.args.out, file.name)),
                        !.attempted = Append(@, file.name)]
  IN /\ Running
     /\ f.fn = "handleSyncDirectory" /\ f.pc = "file"
     /\ \/ /\ f.i > Len(f.items)
           /\ tool' = Return(tool, createResponse(Data(<<"Directory synced successfully">>, f.n),
                                                  FALSE))
        \/ /\ f.i <= Len(f.items)
           /\ file.type = "file"
           /\ \/ tool' = Called(Goto(t, [f EXCEPT !.pc = "push"]), "handlePushFile",
                                PushArgsOfSync(f.args, file))
              \/ tool' = Throw(t, IoError)
        \/ /\ f.i <= Len(f.items)
           /\ file.type # "file"
           /\ tool' = Goto(tool, [f EXCEPT !.i = @ + 1])
     /\ UNCHANGED otherVars

\* index.ts, lines 240-308: the switch over the tool name.
HandlerOf(name) ==
  CASE name = "push_file" -> "handlePushFile"
    [] name = "create_or_update_file" -> "handleCreateOrUpdateFile"
    [] name = "delete_file" -> "handleDeleteFile"
    [] name = "pull_directory" -> "handlePullDirectory"
    [] name = "sync_directory" -> "handleSyncDirectory"
    [] name = "rename_repository" -> "handleRenameRepository"
    [] OTHER -> ""

ToolNames ==
  {"push_file", "create_or_update_file", "delete_file", "pull_directory",
   "sync_directory", "rename_repository", "no_such_tool"}

\* The required list of each tool's input schema.
Required(name) ==
  CASE name \in {"push_file", "create_or_update_file"} -> {"repo", "path", "message", "sourcePath"}
    [] name = "delete_file" -> {"repo", "path", "message"}
    [] name = "pull_directory" -> {"repo", "path", "outputPath"}
    [] name = "sync_directory" -> {"repo", "path", "localPath"}
    [] name = "rename_repository" -> {"repo", "new_name"}
    [] OTHER -> {}

\* The other keys a call may carry that a handler looks at.
Optional(name) ==
  CASE name = "create_or_update_file" -> {"content", "sha"}
    [] name = "delete_file" -> {"sha"}
    [] name = "pull_directory" -> {"recursive"}
    [] OTHER -> {}

\* The calls made: every required key present or one of them missing, at most
\* one of the other keys, or no arguments object at all.
ToolArgs(name) ==
  {NoArgs} \cup
  {Args((Required(name) \ missing) \cup extra, owner, path, <<"out">>, <<"work", "a.md">>,
        sha, recursive) :
     missing \in {{}} \cup {{k} : k \in Required(name)},
     extra \in {{}} \cup {{k} : k \in Optional(name)},
     owner \in {Undefined, "Alice", "carol"},
     path \in IF name \in {"pull_directory", "sync_directory"} THEN {<<"docs">>, <<"docs", "sub">>, <<"docs", "a.md">>}
              ELSE {<<"docs", "a.md">>},
     sha \in IF "sha" \in Optional(name) THEN {Undefined, "", "sha9"} ELSE {Undefined},
     recursive \in IF "recursive" \in Optional(name) THEN BOOLEAN ELSE {TRUE}}

WellFormed(args) ==
  /\ "sha" \notin args.keys => args.sha = Undefined
  /\ "sha" \in args.keys => args.sha # Undefined
  /\ "recursive" \notin args.keys => args.recursive

\* index.ts, lines 231-308: a tools/call request arrives and is dispatched.
ToolCall ==
  /\ status = "ready"
  /\ tool.phase = "idle"
  /\ \E name \in ToolNames, local \in 0..MaxLocalFiles :
       \E args \in {a \in ToolArgs(name) : WellFormed(a)} :
         LET t == [IdleTool EXCEPT !.phase = "running", !.name = name, !.args = args,
                                   !.local = local]
         IN tool' = IF HandlerOf(name) # ""
                    THEN Called(t, HandlerOf(name), args)
                    ELSE Ends(t, ThrownOutcome(McpError("MethodNotFound", <<"Unknown tool">>)))
  /\ UNCHANGED otherVars

\* ------------------------------------------------------------------ specifications
InitRemote ==
  /\ commits = <<[tree |-> InitialTree, parents |-> <<>>, by |-> "init"]>>
  /\ head = Len(commits)
  /\ refWriter = "init"
  /\ extPushes = 0
  /\ call = [c \in Calls |-> IdleCall]
  /\ tool = IdleTool
  /\ store = [projects |-> <<DefaultProject>>, file |-> "present",
              disk |-> <<DefaultProject>>, started |-> TRUE]

InitRegistry ==
  /\ status = "none"
  /\ octokitInstances = <<>>
  /\ selectedOwner = Undefined
  /\ last = NoResult
  /\ config = [accounts |-> <<>>, defaultOwner |-> Undefined]
  /\ lastSelected = Undefined
  /\ InitRemote

\* The registry alone, over every configuration.
NextRegistry ==
  \/ Construct
  \/ \E owner \in OwnerArgs : SelectAccount(owner)
  \/ \E owner \in OwnerArgs \cup {Undefined} : ResolveOwner(owner)
  \/ \E owner \in OwnerArgs \cup {Undefined} : ClientFor(owner)
  \/ ListAccounts

SpecRegistry == InitRegistry /\ [][NextRegistry]_vars

\* The registry of a server configured with the accounts alice and bob.
ServerConfigs ==
  {[accounts |-> AccountsOf(<<"alice", "bob">>), defaultOwner |-> d] : d \in {Undefined, "bob"}}

Init ==
  /\ status = "ready"
  /\ config \in ServerConfigs
  /\ octokitInstances = Constructor(config.accounts, config.defaultOwner).instances
  /\ selectedOwner = Constructor(config.accounts, config.defaultOwner).selected
  /\ last = NoResult
  /\ lastSelected = Undefined
  /\ InitRemote

\* One create_commit invocation with any changes list, and an outside writer.
Next ==
  \/ Begin("c1", {Undefined, "Alice"}, ChangeLists(MaxChanges), BOOLEAN)
  \/ Step("c1")
  \/ ExternalPush

Spec == Init /\ [][Next]_vars

\* Two concurrent create_commit invocations and an outside writer.
ConcurrentLists == {<<>>, <<[path |-> "a.txt", operation |-> "modify", sourcePath |-> "src"]>>}

NextConcurrent ==
  \/ \E c \in Calls : Begin(c, {"Alice"}, ConcurrentLists, BOOLEAN)
  \/ \E c \in Calls : Step(c)
  \/ ExternalPush

SpecConcurrent == Init /\ [][NextConcurrent]_vars

\* One invocation of a file or repository tool.
NextTools ==
  \/ ToolCall
  \/ ReadSource
  \/ LookupSha
  \/ Upsert
  \/ DeleteLookup
  \/ Delete
  \/ Rename
  \/ PullList
  \/ PullItem
  \/ SyncReaddir
  \/ SyncFile

SpecTools == Init /\ [][NextTools]_vars

\* create_commit, revert_commit and an outside writer on one branch.
NextRevert ==
  \/ Begin("c1", {"Alice"}, ConcurrentLists, {FALSE, TRUE})
  \/ Step("c1")
  \/ RevertBegin("c2", {"Alice", "carol"})
  \/ RevertGetCommit("c2")
  \/ RevertGetRef("c2")
  \/ RevertGetTree("c2")
  \/ RevertCreateCommit("c2")
  \/ RevertUpdateRef("c2")
  \/ RevertRemoteFails("c2")
  \/ ExternalPush

SpecRevert == Init /\ [][NextRevert]_vars

\* One tool invocation, with the select_account calls and the client
\* resolutions of other invocations arriving at its suspension points.
NextAccounts ==
  \/ NextTools
  \/ \E owner \in {"Alice", "carol"} : SelectAccount(owner)
  \/ ClientFor("Alice")

SpecAccounts == Init /\ [][NextAccounts]_vars

\* One invocation at a time, of a file or repository tool or of the commit
\* tools, with select_account calls arriving at its suspension points.
NextClients ==
  \/ SelectAccount("Alice")
  \/ /\ \A c \in Calls : call[c].pc = "idle"
     /\ NextTools
  \/ /\ tool.phase = "idle"
     /\ \/ Begin("c1", {Undefined, "Alice"}, ConcurrentLists, BOOLEAN)
        \/ Step("c1")
        \/ RevertBegin("c2", {Undefined, "Alice"})
        \/ RevertGetCommit("c2")
        \/ RevertGetRef("c2")
        \/ RevertGetTree("c2")
        \/ RevertCreateCommit("c2")
        \/ RevertUpdateRef("c2")
        \/ RevertRemoteFails("c2")

SpecClients == Init /\ [][NextClients]_vars

\* The project lists the file may hold when the server starts: the i-th
\* project has the i-th name.
RECURSIVE ProjectLists(_)
ProjectLists(n) ==
  IF n = 0 THEN {<<>>}
  ELSE ProjectLists(n - 1) \cup
       {Append(l, Project(<<"github-server", "site", "docs", "tools">>[n], repository, changes, lastCommit)) :
          l \in {t \in ProjectLists(n - 1) : Len(t) = n - 1},
          repository \in {"github-mcp-server", "GitHub-MCP-Server", "site", Undefined},
          changes \in {<<>>, <<"edit">>},
          lastCommit \in {0, 1}}

InitProjects ==
  /\ status = "ready"
  /\ config \in ServerConfigs
  /\ octokitInstances = Constructor(config.accounts, config.defaultOwner).instances
  /\ selectedOwner = Constructor(config.accounts, config.defaultOwner).selected
  /\ last = NoResult
  /\ lastSelected = Undefined
  /\ commits = <<[tree |-> InitialTree, parents |-> <<>>, by |-> "init"]>>
  /\ head = Len(commits)
  /\ refWriter = "init"
  /\ extPushes = 0
  /\ call = [c \in Calls |-> IdleCall]
  /\ tool = IdleTool
  /\ store \in {[projects |-> <<>>, file |-> "present", disk |-> disk, started |-> FALSE] :
                  disk \in ProjectLists(MaxProjects)}
               \cup {[projects |-> <<>>, file |-> "absent", disk |-> <<>>, started |-> FALSE]}

\* The server starts and serves one create_commit invocation whose callback
\* is clearProjectChanges.
NextProjects ==
  \/ Startup
  \/ /\ store.started
     /\ Begin("c1", {"Alice"}, ConcurrentLists, BOOLEAN)
  \/ GetRef("c1")
  \/ GetCommit("c1")
  \/ LoopStep("c1")
  \/ CreateBlob("c1")
  \/ CreateTree("c1")
  \/ CreateCommit("c1")
  \/ UpdateRef("c1")
  \/ RemoteFails("c1")
  \/ Verify("c1")
  \/ ClearLoad("c1")
  \/ ClearUpdate("c1")
  \/ ClearSave("c1")

SpecProjects == InitProjects /\ [][NextProjects]_vars

\* ------------------------------------------------------------------ claims
Max(S) == CHOOSE x \in S : \A y \in S : y <= x

Configured(owner) ==
  \E i \in 1..Len(config.accounts) :
    toLowerCase(config.accounts[i].owner) = toLowerCase(owner)

\* The credential configured for an owner: of the last account under that name.
CredentialOf(owner) ==
  config.accounts[Max({i \in 1..Len(config.accounts) :
                         toLowerCase(config.accounts[i].owner) = toLowerCase(owner)})].token

OwnerOmitted == last.op \in {"getEffectiveOwner", "getOctokitForOwner"} /\ last.arg = Undefined

FailsNoOwnerSelected ==
  ~last.ok /\ last.code = "InvalidParams" /\ last.msg = "No owner selected"

ResolvesTo(owner) ==
  /\ last.ok
  /\ last.value = IF last.op = "getEffectiveOwner" THEN owner ELSE CredentialOf(owner)

\* C1: in every state of the constructed registry the selected owner is unset
\* or names, case-insensitively, a configured account that the registry holds.
C1_SelectedOwnerIsConfigured ==
  status = "ready" =>
    \/ selectedOwner = Undefined
    \/ /\ Configured(selectedOwner)
       /\ \E j \in 1..Len(octokitInstances) :
            octokitInstances[j].key = toLowerCase(selectedOwner)

C1_Witness ==
  /\ last.op = "selectAccount" /\ ~last.ok
  /\ selectedOwner = "ALICE"

\* C2 as stated: an owner-omitting resolution fails with "No owner selected"
\* before any selectAccount call, and resolves to X and X's credential after
\* selectAccount(X).
C2_Original ==
  OwnerOmitted =>
    IF lastSelected = Undefined THEN FailsNoOwnerSelected ELSE ResolvesTo(lastSelected)

\* C2 amended: before any selectAccount call an owner-omitting resolution fails
\* with "No owner selected" unless a configured default owner matched a
\* configured account, in which case it resolves to that default; after a
\* selectAccount(X) that returned it resolves to X and to X's credential, up to
\* the next selectAccount that returns.
C2_Amended ==
  OwnerOmitted =>
    IF lastSelected # Undefined THEN ResolvesTo(lastSelected)
    ELSE IF Truthy(config.defaultOwner) /\ Configured(config.defaultOwner)
    THEN ResolvesTo(config.defaultOwner)
    ELSE FailsNoOwnerSelected

C2_Witness ==
  /\ config.accounts = AccountsOf(<<"alice", "bob">>)
  /\ config.defaultOwner = Undefined
  /\ lastSelected = "bob"
  /\ last.op = "getOctokitForOwner" /\ last.arg = Undefined
  /\ last.ok /\ last.value = "tok2"

\* C3: a selectAccount whose owner matches no configured account fails with
\* the invalid-owner error and leaves the selected-owner slot as it was.
C3_RejectedSelectKeepsSlot ==
  [][(last'.op = "selectAccount" /\ ~Configured(last'.arg)) =>
       /\ ~last'.ok
       /\ last'.code = "InvalidParams" /\ last'.msg = "Invalid owner"
       /\ last'.owners = MapKeys(octokitInstances)
       /\ selectedOwner' = selectedOwner]_vars

C3_Witness ==
  /\ last.op = "selectAccount" /\ last.arg = "carol" /\ ~last.ok
  /\ selectedOwner = "Alice"

Wrote(c) == call[c].writes

Returned(c) == call[c].pc = "done" /\ call[c].result.kind \in {"ok", "warning"}

Failed(c) == call[c].pc = "done" /\ call[c].result.kind = "error"

\* C4 as stated: a createCommit that fails for a change without sourcePath has
\* created no blob, no tree and no commit and has not updated the reference.
C4_MissingSourcePathMakesNoWrites ==
  \A c \in Calls :
    (Failed(c) /\ call[c].result.msg = "sourcePath required") =>
      Wrote(c) = [blob |-> 0, tree |-> 0, commit |-> 0, ref |-> 0]

\* C5: whenever createCommit returns an error, that call has not updated the
\* branch reference.
C5_ErrorMeansRefUntouched ==
  \A c \in Calls : Failed(c) => (Wrote(c).ref = 0 /\ refWriter # c)

C5_Witness ==
  \E c \in Calls : Failed(c) /\ Wrote(c).commit = 1

NotifyThrows(c) ==
  /\ call[c].pc = "notify"
  /\ call'[c].pc = "done"
  /\ call'[c].result.kind # "ok"

\* C6 as stated: when the callback throws, the call returns the commit with a
\* warning, and the returned hash is the branch head when the call returns.
C6_Original ==
  [][\A c \in Calls :
       NotifyThrows(c) =>
         /\ call'[c].result.kind = "warning"
         /\ call'[c].result.commit = head']_vars

\* C6 amended: when the callback throws, the call returns the commit with a
\* warning; the returned hash is the commit this call created and set the
\* branch reference to, and it is the branch head when the call returns unless
\* another writer has updated the reference since.
C6_Amended ==
  [][\A c \in Calls :
       NotifyThrows(c) =>
         /\ call'[c].result.kind = "warning"
         /\ call'[c].result.warning # ""
         /\ call'[c].result.commit = call[c].newSha
         /\ commits[call[c].newSha].by = c
         /\ call[c].wrote = call[c].newSha
         /\ (refWriter' = c => head' = call'[c].result.commit)]_vars

C6_Witness ==
  \E c \in Calls :
    /\ call[c].pc = "done" /\ call[c].result.kind = "warning"
    /\ call[c].notified # <<>>
    /\ refWriter = c /\ head = call[c].result.commit

NonDelete(c, p) ==
  {i \in 1..Len(call[c].args.changes) :
     call[c].args.changes[i].path = p /\ call[c].args.changes[i].operation # "delete"}

Named(c, p) ==
  {i \in 1..Len(call[c].args.changes) : call[c].args.changes[i].path = p}

\* C7: a successful createCommit that read head H with tree T produces a commit
\* whose single parent is H and whose tree maps every path of an add/modify
\* change to the hash of the blob created from its source file (the last such
\* change of the list when several name the path), and every path no change
\* names to its hash in T.
C7_NewCommitOverridesBaseTree ==
  \A c \in Calls :
    Returned(c) =>
      LET r == call[c]
          new == commits[r.newSha]
          T == commits[r.refSha].tree
      IN /\ r.result.commit = r.newSha
         /\ new.parents = <<r.refSha>>
         /\ \A p \in Paths :
              /\ NonDelete(c, p) # {} => new.tree[p] = BlobSha(r.read[Max(NonDelete(c, p))])
              /\ Named(c, p) = {} => new.tree[p] = T[p]

C7_Witness ==
  \E c \in Calls :
    /\ Returned(c)
    /\ call[c].args.changes = <<[path |-> "b.txt", operation |-> "add", sourcePath |-> "src"]>>
    /\ call[c].refSha = 2
    /\ commits[call[c].newSha].tree = [p \in Paths |-> BlobSha("v1")]

DeletedFromBase(c) ==
  {p \in Paths :
     /\ commits[call[c].refSha].tree[p] # Absent
     /\ \E i \in Named(c, p) : call[c].args.changes[i].operation = "delete"}

\* The tree entries are those of the add and modify changes: none is
\* constructed for a delete change.
NoEntryForDelete(c) ==
  /\ \A j \in 1..Len(call[c].trees) : call[c].trees[j].sha # Absent
  /\ Len(call[c].trees) =
       Cardinality({i \in 1..Len(call[c].args.changes) :
                      call[c].args.changes[i].operation # "delete"})

\* C8 as stated: for any changes list, a path of the base tree named by a
\* delete change keeps its hash in the new commit's tree, and no tree entry is
\* constructed for the delete change.
C8_Original ==
  \A c \in Calls :
    Returned(c) =>
      /\ NoEntryForDelete(c)
      /\ \A p \in DeletedFromBase(c) :
           commits[call[c].newSha].tree[p] = commits[call[c].refSha].tree[p]

\* C8 amended: a path of the base tree named by a delete change, and by no add
\* or modify change of the same list, keeps its hash in the new commit's tree,
\* and no tree entry is constructed for a delete change.
C8_Amended ==
  \A c \in Calls :
    Returned(c) =>
      /\ NoEntryForDelete(c)
      /\ \A p \in DeletedFromBase(c) :
           NonDelete(c, p) = {} =>
             /\ commits[call[c].newSha].tree[p] = commits[call[c].refSha].tree[p]
             /\ \A j \in 1..Len(call[c].trees) : call[c].trees[j].path # p

C8_Witness ==
  \E c \in Calls :
    /\ Returned(c)
    /\ call[c].args.changes = <<[path |-> "a.txt", operation |-> "delete", sourcePath |-> Undefined]>>
    /\ commits[call[c].newSha].tree["a.txt"] = BlobSha("v1")

C10_NotifyOnceAfterCommit ==
  \A c \in Calls :
    LET r == call[c] IN
    /\ Len(r.notified) <= 1
    /\ r.notified # <<>> =>
         /\ r.args.notify
         /\ Wrote(c).commit = 1 /\ r.newSha \in 1..Len(commits)
         /\ Wrote(c).ref = 1 /\ r.wrote = r.newSha
         /\ r.verified
         /\ r.notified[1] = <<r.args.repo, r.newSha>>
    /\ Failed(c) => r.notified = <<>>

C10_Witness ==
  \E c \in Calls : call[c].notified # <<>> /\ call[c].result.kind = "ok"

C12_RegistryFailureUnchanged ==
  \A c \in Calls :
    LET refusal == getOctokitForOwner(call[c].args.owner) IN
    (call[c].pc = "done" /\ ~refusal.ok) =>
      /\ Failed(c)
      /\ call[c].result.code = refusal.code
      /\ call[c].result.msg = refusal.msg
      /\ call[c].refSha = 0
      /\ Wrote(c) = [blob |-> 0, tree |-> 0, commit |-> 0, ref |-> 0]

\* ------------------------------------------------------------------ claims about the tools
ToolDone(name) == tool.phase = "done" /\ tool.name = name

ToolReturned == tool.outcome.kind = "returned"

ToolFailed == tool.outcome.kind = "thrown"

RequestsOf(api) == SelectSeq(tool.requests, LAMBDA q : q.api = api)

\* The innermost message of the error the invocation ended with.
RootCause == tool.outcome.err.msg[Len(tool.outcome.err.msg)]

Rejection == McpError("InvalidParams", <<"Direct content upload is not allowed">>)

\* C13 as stated: a push_file call with repo, path, message and sourcePath, an
\* owner that resolves and a readable local file reads that file, sends one
\* upsert and, unless the remote service refuses, returns successfully.
C13_PushFileUpserts ==
  (/\ ToolDone("push_file")
   /\ Required("push_file") \subseteq tool.args.keys
   /\ getOctokitForOwner(tool.args.owner).ok
   /\ ~(ToolFailed /\ RootCause = "ENOENT")) =>
    /\ tool.reads = <<tool.args.sourcePath>>
    /\ Len(RequestsOf("createOrUpdateFileContents")) = 1
    /\ ToolReturned \/ RootCause = "remote service error"

\* C14: a create_or_update_file call whose arguments carry the key content
\* ends at once with an InvalidParams error, having read no local file and
\* sent no request; the same rejection ends every push_file that has read its
\* file, with no upsert sent.
C14_InlineContentRejected ==
  /\ (tool.name = "create_or_update_file" /\ "content" \in tool.args.keys) =>
       /\ tool.phase = "done"
       /\ tool.outcome = ThrownOutcome(Rejection)
       /\ tool.response = ProtocolError(Rejection)
       /\ tool.reads = <<>>
       /\ tool.requests = <<>>
  /\ (ToolDone("push_file") /\ tool.reads # <<>> /\ RootCause # "ENOENT") =>
       /\ tool.outcome = ThrownOutcome(Rejection)
       /\ tool.requests = <<>>

C14_Witness ==
  /\ ToolDone("create_or_update_file")
  /\ tool.args.keys = Required("create_or_update_file") \cup {"content"}
  /\ getOctokitForOwner(tool.args.owner).ok
  /\ tool.outcome.err.code = "InvalidParams"
  /\ tool.requests = <<>>

\* C15: a create_or_update_file call that reaches the remote service with no
\* hash supplied first looks the hash up: on 404 it sends the upsert without a
\* hash, on a found hash it sends the upsert with exactly that hash, on any
\* other lookup failure it fails with no upsert sent. With a hash supplied it
\* sends no lookup and the upsert carries the supplied hash.
C15_ShaLookup ==
  ToolDone("create_or_update_file") =>
    LET q == tool.requests IN
    /\ Len(RequestsOf("createOrUpdateFileContents")) = (IF ToolReturned THEN 1 ELSE 0)
         \/ (ToolFailed /\ q[Len(q)].answer = "409")
    /\ Truthy(tool.args.sha) =>
         /\ RequestsOf("getContent") = <<>>
         /\ \A k \in 1..Len(q) : q[k].sha = tool.args.sha
    /\ (~Truthy(tool.args.sha) /\ q # <<>>) =>
         /\ q[1].api = "getContent" /\ q[1].path = tool.args.path
         /\ q[1].answer = "404" =>
              Len(q) = 2 /\ q[2].api = "createOrUpdateFileContents" /\ q[2].sha = Undefined
         /\ q[1].answer \in RemoteShas =>
              Len(q) = 2 /\ q[2].api = "createOrUpdateFileContents" /\ q[2].sha = q[1].answer
         /\ q[1].answer = "500" => Len(q) = 1 /\ ToolFailed

C15_Witness ==
  /\ ToolDone("create_or_update_file")
  /\ ToolReturned
  /\ Len(tool.requests) = 2
  /\ tool.requests[1].answer \in RemoteShas
  /\ tool.requests[2].sha = tool.requests[1].answer

\* C16: delete_file, once its arguments and owner are accepted, first looks the
\* hash up and sends the delete only after a lookup that returned a hash, with
\* exactly that hash; when the lookup fails or returns no hash the call fails
\* and no delete is sent.
C16_DeleteWithHashJustRead ==
  ToolDone("delete_file") =>
    LET q == tool.requests IN
    /\ handleDeleteFile(tool.args).err = NoError => q # <<>>
    /\ q # <<>> => q[1].api = "getContent" /\ q[1].path = tool.args.path
    /\ \A k \in 1..Len(q) :
         q[k].api = "deleteFile" =>
           /\ k = 2
           /\ q[1].answer \in RemoteShas
           /\ q[2].sha = q[1].answer
           /\ q[2].path = tool.args.path
    /\ (q # <<>> /\ q[1].answer \notin RemoteShas) => Len(q) = 1 /\ ToolFailed

C16_Witness ==
  /\ ToolDone("delete_file")
  /\ ToolReturned
  /\ tool.args.sha = "sha9"
  /\ tool.requests[2].api = "deleteFile"
  /\ tool.requests[2].sha = tool.requests[1].answer

\* The files of the local directory, in the order sync_directory pushes them.
LocalFiles == SelectSeq(Dirents(tool, tool.args.out), LAMBDA d : d.type = "file")

RECURSIVE MirrorFrom(_, _, _, _)
MirrorFrom(path, out, recursive, k) ==
  IF k > Len(Listing(path)) THEN <<>>
  ELSE LET item == Listing(path)[k]
           here == IF item.type = "file"
                   THEN <<[remote |-> Join(path, item.name), local |-> Join(out, item.name)]>>
                   ELSE IF item.type = "dir" /\ recursive
                   THEN MirrorFrom(Join(path, item.name), Join(out, item.name), recursive, 1)
                   ELSE <<>>
       IN here \o MirrorFrom(path, out, recursive, k + 1)

Mirror == MirrorFrom(tool.args.path, tool.args.out, Recursive(tool.args), 1)

\* The requests for the content of file entries.
Fetches == SelectSeq(tool.requests, LAMBDA q : ~IsDirectory(q.path))

LocalCopy(entry) ==
  [path |-> entry.local, content |-> FromBase64(RemoteContent(entry.remote))]

\* C18 as stated: a pull_directory that returns has written exactly one local
\* file per file entry: per direct entry when it is not recursive, and per
\* entry of every subdirectory as well, depth first under
\* outputPath/<subdirectory name>, when it is.
C18_Original ==
  (ToolDone("pull_directory") /\ ToolReturned) =>
    tool.writes = [k \in 1..Len(Mirror) |-> LocalCopy(Mirror[k])]

\* C18: a pull_directory that returns has fetched every file entry once, in
\* depth-first order (direct entries only when it is not recursive), and has
\* written, in that order and under outputPath/<subdirectory names>, exactly
\* the entries whose fetch answered with content; an entry that is neither a
\* file nor a directory is neither fetched nor written.
C18_Amended ==
  (ToolDone("pull_directory") /\ ToolReturned) =>
    LET served == SelectSeq([k \in 1..Len(Fetches) |-> k],
                            LAMBDA k : Fetches[k].answer = "file")
    IN /\ Len(Fetches) = Len(Mirror)
       /\ \A k \in 1..Len(Mirror) : Fetches[k].path = Mirror[k].remote
       /\ tool.writes = [j \in 1..Len(served) |-> LocalCopy(Mirror[served[j]])]
       /\ ~Recursive(tool.args) =>
            \A j \in 1..Len(tool.writes) : Front(tool.writes[j].path) = tool.args.out

C18_Witness ==
  /\ ToolDone("pull_directory") /\ ToolReturned
  /\ Recursive(tool.args)
  /\ tool.args.path = <<"docs">>
  /\ Len(tool.writes) = Len(Mirror)
  /\ tool.writes[2].path = <<"out", "sub", "a.md">>
  /\ tool.writes[Len(tool.writes)].path = <<"out", "z.md">>

\* C19 as stated: every error a tool invocation ends with is answered as a
\* text payload flagged isError that contains the error's message.
C19_Original ==
  (tool.phase = "done" /\ ToolFailed) =>
    /\ tool.response.form = "payload"
    /\ tool.response.isError
    /\ tool.response.data.text = tool.outcome.err.msg

\* C19: an error that is not an McpError is answered as a text payload flagged
\* isError that contains its message; an McpError leaves the request handler
\* as it is, with its code and message, and is answered as a protocol error;
\* what a handler returns is passed on unflagged. Every invocation that ends
\* is answered in one of these forms.
C19_Amended ==
  tool.phase = "done" =>
    LET error == tool.outcome.err IN
    /\ tool.response.form \in {"payload", "error"}
    /\ (ToolFailed /\ ~error.mcp) =>
         /\ tool.response.form = "payload"
         /\ tool.response.isError
         /\ tool.response.data.text = error.msg
    /\ (ToolFailed /\ error.mcp) =>
         /\ tool.response.form = "error"
         /\ tool.response.code = error.code
         /\ tool.response.data.text = error.msg
    /\ ToolReturned =>
         /\ tool.response = tool.outcome.payload
         /\ tool.response.form = "payload"
         /\ ~tool.response.isError

C19_Witness ==
  /\ tool.phase = "done"
  /\ ToolFailed
  /\ tool.response.form = "payload"
  /\ tool.response.isError
  /\ tool.response.data.text = <<"Missing required field", "message">>

\* C20 as stated: a call that lacks one of the arguments its tool requires
\* fails with an InvalidParams error and has sent no request.
C20_MissingRequiredIsInvalidParams ==
  (/\ tool.phase = "done"
   /\ tool.args.given
   /\ ~(Required(tool.name) \subseteq tool.args.keys)) =>
    /\ ToolFailed
    /\ tool.outcome.err.code = "InvalidParams"
    /\ tool.requests = <<>>

\* ------------------------------------------------------------------ claims about the registry, continued
\* C21: construction fails exactly when no account is supplied; when it
\* succeeds the selection is the configured default owner as written if that
\* owner matches a configured account case-insensitively, and unset otherwise.
C21_ConstructionContract ==
  [][(status = "none" /\ status' # "none") =>
       LET accounts == config'.accounts
           default == config'.defaultOwner
           matches == \E i \in 1..Len(accounts) :
                        toLowerCase(accounts[i].owner) = toLowerCase(default)
       IN /\ status' = (IF Len(accounts) = 0 THEN "failed" ELSE "ready")
          /\ status' = "ready" =>
               selectedOwner' = (IF default # Undefined /\ matches THEN default
                                 ELSE Undefined)]_vars

C21_Witness ==
  /\ status = "ready"
  /\ last.op = "none"
  /\ config.accounts = AccountsOf(<<"alice", "bob">>)
  /\ config.defaultOwner = "ALICE"
  /\ selectedOwner = "ALICE"

\* The configured owner names as written, one per account.
ConfiguredNames == [i \in 1..Len(config.accounts) |-> config.accounts[i].owner]

\* The positions of the accounts whose lower-cased name no earlier account has.
FirstOfName ==
  SelectSeq([i \in 1..Len(config.accounts) |-> i],
            LAMBDA i : \A j \in 1..(i - 1) :
                         toLowerCase(config.accounts[j].owner) #
                           toLowerCase(config.accounts[i].owner))

\* C22 as stated: listAccounts returns the configured owner names, one per
\* configured account, in configuration order.
C22_Original ==
  last.op = "listAccounts" => last.ok /\ last.owners = ConfiguredNames

\* C22: listAccounts never fails and returns the lower-cased owner names, one
\* per distinct lower-cased name, in the order in which each name first occurs
\* in the configuration, whatever the selection.
C22_Amended ==
  last.op = "listAccounts" =>
    /\ last.ok
    /\ last.owners = [k \in 1..Len(FirstOfName) |->
                        toLowerCase(config.accounts[FirstOfName[k]].owner)]

C22_Witness ==
  /\ last.op = "listAccounts"
  /\ config.accounts = AccountsOf(<<"bob", "Alice">>)
  /\ selectedOwner = "ALICE"
  /\ last.owners = <<"bob", "alice">>

\* The owner a call with this owner argument is made for.
ResolvedOwner(owner) == IF owner # Undefined /\ owner # "" THEN owner ELSE selectedOwner

\* C23: getOctokitForOwner returns exactly when the resolved owner, explicit
\* or selected, matches a configured account case-insensitively, and then
\* returns the client of that account's credential; with an owner resolved
\* that matches none it fails with the no-token error, which never happens
\* with the owner omitted and a selection present.
C23_ClientFor ==
  last.op = "getOctokitForOwner" =>
    LET resolved == ResolvedOwner(last.arg) IN
    /\ last.ok <=> (resolved # Undefined /\ Configured(resolved))
    /\ last.ok => last.value = CredentialOf(resolved)
    /\ (resolved # Undefined /\ ~Configured(resolved)) =>
         /\ last.code = "InvalidParams" /\ last.msg = "No GitHub token configured"
         /\ last.owners = MapKeys(octokitInstances)
    /\ (last.arg = Undefined /\ selectedOwner # Undefined) => last.ok

C23_Witness ==
  /\ last.op = "getOctokitForOwner"
  /\ last.arg = "carol"
  /\ selectedOwner = "bob"
  /\ ~last.ok /\ last.msg = "No GitHub token configured"

\* C24: a selectAccount that repeats, with the same accepted owner, the
\* selectAccount just before it changes neither the selection nor the clients
\* nor the result of resolving any explicit or omitted owner.
C24_SelectAccountIdempotent ==
  [][(last'.op = "selectAccount" /\ last'.ok /\ last'.again) =>
       /\ selectedOwner' = selectedOwner
       /\ octokitInstances' = octokitInstances
       /\ \A owner \in OwnerArgs \cup {Undefined} :
            /\ getEffectiveOwner(owner)' = getEffectiveOwner(owner)
            /\ getOctokitForOwner(owner)' = getOctokitForOwner(owner)]_vars

C24_Witness ==
  /\ last.op = "selectAccount" /\ last.ok /\ last.again
  /\ last.arg = "Alice"
  /\ selectedOwner = "Alice"

\* ------------------------------------------------------------------ claims about revert_commit
\* A revert_commit call that returned its commit.
Reverted(c) ==
  /\ call[c].toRevert # 0
  /\ call[c].pc = "done"
  /\ call[c].result.kind = "ok"

\* The paths on which a commit differs from its first parent.
ChangedBy(sha) ==
  {p \in Paths : commits[sha].tree[p] # commits[commits[sha].parents[1]].tree[p]}

\* C25: a successful revert_commit of commit C on a branch whose head is H
\* (C in the history of H) creates a commit with the single parent H whose
\* tree has, on every path C changed, the content of C's parent, and on every other path the content
\* of H, whether or not C is the head.
C25_RevertUndoesOnlyTheCommit ==
  \A c \in Calls :
    (Reverted(c) /\ IsAncestor(call[c].toRevert, call[c].refSha)) =>
      LET new == commits[call[c].newSha]
          target == call[c].toRevert
          H == call[c].refSha
      IN /\ new.parents = <<H>>
         /\ \A p \in Paths :
              new.tree[p] = IF p \in ChangedBy(target)
                            THEN commits[commits[target].parents[1]].tree[p]
                            ELSE commits[H].tree[p]

\* ------------------------------------------------------------------ claims about accounts and invocations
\* C26: once the server is constructed the accounts and their clients never
\* change, and a step changes the selected owner only if it is an accepted
\* selectAccount (which then holds its argument); the steps of the tools and
\* the resolutions, succeeding or failing, leave selection and registry alone.
C26_RegistryFrame ==
  [][status = "ready" =>
       /\ status' = "ready"
       /\ octokitInstances' = octokitInstances
       /\ config' = config
       /\ selectedOwner' # selectedOwner =>
            /\ last'.op = "selectAccount" /\ last'.ok
            /\ selectedOwner' = last'.arg
            /\ tool' = tool /\ call' = call
       /\ (tool' # tool \/ last'.op # "selectAccount" \/ ~last'.ok) =>
            selectedOwner' = selectedOwner]_vars

\* A tool invocation that sent requests has failed; meanwhile Alice was
\* selected, and the selection of an unknown owner was rejected after that.
C26_Witness ==
  /\ tool.phase = "done" /\ ToolFailed
  /\ tool.requests # <<>>
  /\ config.defaultOwner = "bob"
  /\ selectedOwner = "Alice"
  /\ last.op = "selectAccount" /\ last.arg = "carol" /\ ~last.ok

\* C27: all the remote calls of one tool invocation go out under one owner
\* name and through one client, whatever select_account calls arrive at the
\* invocation's suspension points.
C27_OneAccountPerInvocation ==
  \A i, j \in 1..Len(tool.requests) :
    /\ tool.requests[i].octokit = tool.requests[j].octokit
    /\ tool.requests[i].owner = tool.requests[j].owner

\* The client registered under the lower-cased form of an owner name.
Registered(owner, octokit) ==
  \E i \in 1..Len(octokitInstances) :
    /\ octokitInstances[i].key = toLowerCase(owner)
    /\ octokitInstances[i].token = octokit

\* C28: every remote call goes out through the client registered under the
\* lower-cased form of the owner name it carries, for the file and repository
\* tools and for the commit tools, whatever select_account calls arrive
\* between the steps of the invocation.
C28_ClientMatchesOwner ==
  /\ \A i \in 1..Len(tool.requests) :
       Registered(tool.requests[i].owner, tool.requests[i].octokit)
  /\ \A c \in Calls :
       call[c].octokit # Undefined => Registered(call[c].effectiveOwner, call[c].octokit)

\* An owner-omitting invocation sent its last request under bob's name and
\* through his client, and Alice has been selected since.
C28_Witness ==
  /\ tool.requests # <<>>
  /\ tool.requests[Len(tool.requests)].owner = "bob"
  /\ tool.requests[Len(tool.requests)].octokit = "tok2"
  /\ tool.args.owner = Undefined
  /\ selectedOwner = "Alice"

\* ------------------------------------------------------------------ claims about create_commit, continued
\* A changes list that is empty or holds only delete changes.
DeleteOnly(changes) == \A i \in 1..Len(changes) : changes[i].operation = "delete"

\* C29: a create_commit that returns a commit has sent exactly one reference
\* update; when its changes list is empty or holds only delete changes it has
\* created no blob, its commit has the tree of the head it read and that head
\* as its only parent, and the reference update wrote this commit.
C29_EmptyCommit ==
  \A c \in Calls :
    (call[c].pc = "done" /\ call[c].toRevert = 0
       /\ call[c].result.kind \in {"ok", "warning"}) =>
      /\ call[c].writes.ref = 1
      /\ DeleteOnly(call[c].args.changes) =>
           /\ call[c].writes.blob = 0
           /\ call[c].writes.commit = 1
           /\ commits[call[c].newSha].tree = commits[call[c].refSha].tree
           /\ commits[call[c].newSha].parents = <<call[c].refSha>>
           /\ call[c].wrote = call[c].newSha

\* A create_commit with one delete change returned a commit with the tree of
\* its parent, and the branch points to it.
C29_Witness ==
  /\ call["c1"].pc = "done" /\ call["c1"].result.kind = "ok"
  /\ call["c1"].args.changes = <<[path |-> "a.txt", operation |-> "delete", sourcePath |-> Undefined]>>
  /\ head = call["c1"].newSha
  /\ commits[head].tree = commits[commits[head].parents[1]].tree
  /\ call["c1"].writes = [blob |-> 0, tree |-> 1, commit |-> 1, ref |-> 1]

\* ------------------------------------------------------------------ claims about the project store
\* A project whose repository name is the given one, letter case aside.
SameRepo(p, repo) ==
  p.repository # Undefined /\ toLowerCase(p.repository) = toLowerCase(repo)

\* The project as the callback is said to leave it.
Cleared(p, commitSha) ==
  Project(p.name, p.repository, <<>>, commitSha)

\* The step on which the callback of call c completes.
Completes(c) ==
  call[c].pc = "clear.save" /\ call'[c].pc = "done" /\ call'[c].result.kind = "ok"

\* The step on which the callback of call c looks for the project, none of
\* the tracked projects having the repository name it was given.
FindsNone(c) ==
  /\ call[c].pc = "clear.update"
  /\ \A i \in 1..Len(store.disk) : ~SameRepo(store.disk[i], NotifyArgs(c)[1])

\* What the claim says of the step at which nothing is found: the callback
\* fails, the store is as it was, and the commit is returned with a warning.
NoMatchFails(c) ==
  FindsNone(c) =>
    /\ call'[c].pc = "done"
    /\ call'[c].result = Warned(call[c].newSha)
    /\ head = call[c].newSha
    /\ store'.disk = store.disk
    /\ store'.projects = store.disk

\* C30 as stated: when the callback completes for (r, s), every tracked
\* project whose repository name equals r, letter case aside, has no pending
\* change and lastCommit = s, and every other tracked project is as it was.
C30_Original ==
  [][\A c \in Calls :
       /\ Completes(c) =>
            /\ Len(store'.disk) = Len(store.disk)
            /\ store'.projects = store'.disk
            /\ \A i \in 1..Len(store.disk) :
                 store'.disk[i] = IF SameRepo(store.disk[i], NotifyArgs(c)[1])
                                  THEN Cleared(store.disk[i], NotifyArgs(c)[2])
                                  ELSE store.disk[i]
       /\ NoMatchFails(c)]_vars

\* C30 amended: when the callback completes for (r, s), the first tracked
\* project, in the order of the store, whose repository name equals r, letter
\* case aside, has no pending change and lastCommit = s, and every other
\* tracked project, a later one with the same repository name included, is
\* as it was; when no tracked project matches r the callback fails, the
\* store is as it was, and create_commit returns the commit with the warning.
C30_Amended ==
  [][\A c \in Calls :
       /\ Completes(c) =>
            LET matching == {i \in 1..Len(store.disk) :
                               SameRepo(store.disk[i], NotifyArgs(c)[1])}
            IN /\ matching # {}
               /\ Len(store'.disk) = Len(store.disk)
               /\ store'.projects = store'.disk
               /\ \A i \in 1..Len(store.disk) :
                    store'.disk[i] = IF i = Min(matching)
                                     THEN Cleared(store.disk[i], NotifyArgs(c)[2])
                                     ELSE store.disk[i]
       /\ NoMatchFails(c)]_vars

\* The callback completed on a store of two projects with the repository name
\* of the commit in different letter case: the first is cleared and carries
\* the new hash, the second still has its pending change.
C30_Witness ==
  /\ call["c1"].pc = "done" /\ call["c1"].result.kind = "ok"
  /\ call["c1"].notified # <<>>
  /\ Len(store.disk) = 2
  /\ store.disk[1] = Project("github-server", "GitHub-MCP-Server", <<>>, call["c1"].newSha)
  /\ store.disk[2] = Project("site", "github-mcp-server", <<"edit">>, 0)

====
